---- MODULE Spec2Model ----
(***************************************************************************)
(* Markov name generator (src/main.cpp): class Model (alphabet, per-order  *)
(* chains, training, prediction with weighted sampling) and class          *)
(* WordGenerator (newWord, newWords).                                      *)
(*                                                                         *)
(* Characters are their ASCII codes, strings are sequences of characters.  *)
(* A modelData (unordered_map<string, vector<double>>) is a function from  *)
(* its keys to weight vectors; m_models is the sequence of these maps,     *)
(* m_models[k] (1-based) being the C++ m_models[k - 1].                    *)
(* Weights are prior + count with integral priors, which doubles hold      *)
(* exactly.                                                                *)
(***************************************************************************)
EXTENDS Integers, Sequences, FiniteSets, TLC

VARIABLES
    m_order,      \* Model::m_order
    m_dPrior,     \* Model::m_dPrior
    m_alphabet,   \* Model::m_alphabet
    m_models,     \* Model::m_models
    origin,       \* which constructor / train call built the current object
    args,         \* arguments of the last training (history variable)
    prevOrder,    \* m_order before the last train() call (history variable)
    orig,         \* the model a snapshot was exported from (history variable)
    pc,           \* position inside newWord / newWords
    call,         \* the public call in progress, or the last one made
    word,         \* newWord: local `word`
    i,            \* newWord: local `i`
    words,        \* newWords: local `words`
    predicted,    \* whether the call in progress has called Model::generate
    ret           \* what the last call returned (or threw)

modelVars == <<m_order, m_dPrior, m_alphabet, m_models>>
histVars == <<origin, args, prevOrder, orig>>
callVars == <<pc, call, word, i, words, predicted, ret>>
vars == <<m_order, m_dPrior, m_alphabet, m_models, origin, args, prevOrder,
          orig, pc, call, word, i, words, predicted, ret>>

----------------------------------------------------------------------------
(* Bounds and inputs *)

MaxOrder == 2        \* orders 1..MaxOrder are trained
MaxPrior == 1        \* priors 0..MaxPrior
RandMax == 3         \* rand() returns 0..RandMax (RAND_MAX of the platform)
MaxGenLen == 2       \* letters one generation attempt may append
MaxCtxLen == 2       \* generate is called with contexts of 0..MaxCtxLen characters
MaxN == 2            \* newWords is asked for 0..MaxN words
MaxVecLen == 3       \* selectIndex: length of the weight vectors drawn
MaxWeight == 2       \* selectIndex: largest single weight drawn

Hash == 35           \* '#', the boundary marker
MaxAttempts == 100   \* newWord: attempt cap

Orders == 1..MaxOrder
Priors == 0..MaxPrior

None == [none |-> TRUE]

\* no public call has been made on the object yet
NoCall == [op |-> "none"]

\* the value of a member no constructor has written and no code reads
\* before train() writes it
Unset == [unset |-> TRUE]

Range(s) == {s[j] : j \in DOMAIN s}

\* ["ab", "ac", "ad"]
ScenarioCorpus == <<(<<97, 98>>), (<<97, 99>>), (<<97, 100>>)>>

\* the generators words are drawn from: (["ab"], 1, 0), (["ab"], 2, 0) and
\* (["a"], 1, 1)
GenInputs ==
    { [corpus |-> <<(<<97, 98>>)>>, order |-> 1, prior |-> 0],
      [corpus |-> <<(<<97, 98>>)>>, order |-> 2, prior |-> 0],
      [corpus |-> <<(<<97>>)>>, order |-> 1, prior |-> 1] }

\* (minLength, maxLength) of the newWords calls
WordsLenArgs == {<<3, 8>>, <<1, 2>>}

\* ["a"] ["ab"] ["ba"] ["aa"] [""] ["ab","ba"] ["a","ab"] ["ab","ab"] ["b","a"]
\* and the scenario corpus
Corpora ==
    { <<(<<97>>)>>, <<(<<97, 98>>)>>, <<(<<98, 97>>)>>, <<(<<97, 97>>)>>,
      <<(<<>>)>>,
      <<(<<97, 98>>), (<<98, 97>>)>>, <<(<<97>>), (<<97, 98>>)>>,
      <<(<<97, 98>>), (<<97, 98>>)>>, <<(<<98>>), (<<97>>)>>,
      ScenarioCorpus }

----------------------------------------------------------------------------
(* Model: training *)

EmptyMap == [k \in {} |-> <<>>]

RECURSIVE AddWord(_, _)
\* inner loop of generateAlphabet: append the unseen characters of one word
AddWord(alphabet, w) ==
    IF w = <<>> THEN alphabet
    ELSE AddWord(IF Head(w) \in Range(alphabet) THEN alphabet
                 ELSE Append(alphabet, Head(w)),
                 Tail(w))

RECURSIVE AddWords(_, _)
\* outer loop of generateAlphabet
AddWords(alphabet, trainData) ==
    IF trainData = <<>> THEN alphabet
    ELSE AddWords(AddWord(alphabet, Head(trainData)), Tail(trainData))

RECURSIVE SortAsc(_)
\* std::sort on a vector<char>
SortAsc(s) ==
    IF s = <<>> THEN <<>>
    ELSE LET m == CHOOSE x \in Range(s) : \A y \in Range(s) : x <= y
             p == CHOOSE j \in DOMAIN s :
                      s[j] = m /\ \A l \in 1..(j - 1) : s[l] # m
         IN <<m>> \o SortAsc(SubSeq(s, 1, p - 1) \o SubSeq(s, p + 1, Len(s)))

generateAlphabet(trainData) == SortAsc(AddWords(<<Hash>>, trainData))

padding(order) == [j \in 1..order |-> Hash]

RECURSIVE ObserveWord(_, _, _, _)
\* inner loop of buildChains over a padded word; pos is the C++ index i
ObserveWord(obs, w, pos, order) ==
    IF ~(pos < Len(w) - order) THEN obs
    ELSE LET key == SubSeq(w, pos + 1, pos + order)
             c == w[pos + order + 1]
             old == IF key \in DOMAIN obs THEN obs[key] ELSE <<>>
         IN ObserveWord([k \in DOMAIN obs \cup {key} |->
                            IF k = key THEN Append(old, c) ELSE obs[k]],
                        w, pos + 1, order)

RECURSIVE Observe(_, _, _)
\* first loop of buildChains: the observations of the whole corpus
Observe(obs, trainData, order) ==
    IF trainData = <<>> THEN obs
    ELSE Observe(ObserveWord(obs,
                             padding(order) \o Head(trainData) \o <<Hash>>,
                             0, order),
                 Tail(trainData), order)

\* a count that only records whether the character was observed
Count_seen(prediction, value) == IF prediction \in Range(value) THEN 1 ELSE 0

\* innermost loop of buildChains: occurrences of prediction in value
Count(prediction, value) ==
    Cardinality({j \in DOMAIN value : value[j] = prediction})

\* buildChains: chain.push_back(m_dPrior + count) on getModel(order)[key]
buildChains(models, alphabet, dPrior, trainData, order) ==
    LET obs == Observe(EmptyMap, trainData, order)
        old == models[order]
        pushed(key) ==
            (IF key \in DOMAIN old THEN old[key] ELSE <<>>)
            \o [j \in 1..Len(alphabet) |-> dPrior + Count(alphabet[j], obs[key])]
    IN [models EXCEPT ![order] =
            [k \in DOMAIN old \cup DOMAIN obs |->
                IF k \in DOMAIN obs THEN pushed(k) ELSE old[k]]]

RECURSIVE BuildFrom(_, _, _, _, _, _)
\* loop of p_train: buildChains for i = from .. order
BuildFrom(models, alphabet, dPrior, trainData, from, order) ==
    IF from > order THEN models
    ELSE BuildFrom(buildChains(models, alphabet, dPrior, trainData, from),
                   alphabet, dPrior, trainData, from + 1, order)

\* p_train: the alphabet and the chains after it
p_train(models, dPrior, trainData, order) ==
    LET alphabet == generateAlphabet(trainData)
    IN [alphabet |-> alphabet,
        models |-> BuildFrom(models, alphabet, dPrior, trainData, 1, order)]

\* vector::resize(n): keep the first n maps, add empty ones
Resize(models, n) ==
    [j \in 1..n |-> IF j <= Len(models) THEN models[j] ELSE EmptyMap]

\* a train() that forgets to clear the maps
ClearAll_none(models) == models

\* train(): for (auto &map : m_models) map.clear()
ClearAll(models) == [j \in 1..Len(models) |-> EmptyMap]

\* Model::train: the alphabet and the chains it leaves
TrainState(models, trainData, order, dPrior) ==
    p_train(ClearAll(Resize(models, order)), dPrior, trainData, order)

\* Model(trainData, order, dPrior): m_models(order), resize, p_train
ConstructState(trainData, order, dPrior) ==
    p_train(Resize([j \in 1..order |-> EmptyMap], order), dPrior, trainData, order)

\* Model::exportData
exportData == [alphabet |-> m_alphabet, models |-> m_models]

\* Model(ExportedModel): m_order(model.models.size() - 1) narrowed to int
SnapshotOrder(snapshot) == Len(snapshot.models) - 1

----------------------------------------------------------------------------
(* Model: prediction *)

\* a generator that claims to be trained whatever its chains
isTrained_always(models) == TRUE

\* Model::isTrained: !m_models.empty()
isTrained(models) == models # <<>>

Value(v) == [kind |-> "value", v |-> v]
\* std::out_of_range leaving the call
OutOfRange == [kind |-> "out_of_range"]

RECURSIVE Sum(_, _)
\* selectIndex: accumulator after the first j weights, i.e. totals[j - 1]
Sum(chain, j) == IF j = 0 THEN 0 ELSE Sum(chain, j - 1) + chain[j]

RECURSIVE Scan(_, _, _)
\* selectIndex, second loop from index j (1-based): random < totals[j] with
\* random = (r / RandMax) * accumulator, compared exactly
Scan(chain, r, j) ==
    IF j > Len(chain) THEN 0
    ELSE IF r * Sum(chain, Len(chain)) < Sum(chain, j) * RandMax THEN j - 1
    ELSE Scan(chain, r, j + 1)

\* Model::selectIndex with rand() = r; the result is the C++ (0-based) index
selectIndex(chain, r) == Scan(chain, r, 1)

\* Model::getModel(order): m_models[order - 1]
getModel(models, order) == models[order]

RECURSIVE GenLoop(_, _, _, _, _, _)
\* loop of Model::generate at counter k (the C++ i); order is the local
\* `order`, which the loop never changes
GenLoop(order, alphabet, models, context, r, k) ==
    IF ~(k > 0) THEN Value(Hash)
    ELSE IF Len(context) - k < 0
         \* substr position size() - i wraps around and exceeds size()
         THEN OutOfRange
    ELSE LET s == SubSeq(context, Len(context) - k + 1, Len(context))
             model == getModel(models, order)
         IN IF s \in DOMAIN model
            THEN Value(alphabet[selectIndex(model[s], r) + 1])
            ELSE GenLoop(order, alphabet, models, context, r, k - 1)

\* Model::generate(context) with rand() = r
generate(order, alphabet, models, context, r) ==
    IF ~isTrained(models) THEN Value(Hash)
    ELSE GenLoop(order, alphabet, models, context, r, order)

----------------------------------------------------------------------------
(* Construction and training *)

\* a constructor or train() runs between calls; what the previous object's
\* calls left behind is forgotten
IdleCall ==
    /\ pc = "idle"
    /\ call' = NoCall
    /\ word' = <<>>
    /\ i' = 0
    /\ words' = <<>>
    /\ predicted' = FALSE
    /\ ret' = None
    /\ UNCHANGED pc

Init ==
    /\ m_order = 0
    /\ m_dPrior = Unset          \* Model() does not initialize m_dPrior
    /\ m_alphabet = <<>>
    /\ m_models = <<>>
    /\ origin = "default"
    /\ args = None
    /\ prevOrder = 0
    /\ orig = None
    /\ pc = "idle"
    /\ call = NoCall
    /\ word = <<>>
    /\ i = 0
    /\ words = <<>>
    /\ predicted = FALSE
    /\ ret = None

\* WordGenerator(): a fresh untrained generator
DefaultConstruct ==
    /\ IdleCall
    /\ m_order' = 0
    /\ m_dPrior' = Unset
    /\ m_alphabet' = <<>>
    /\ m_models' = <<>>
    /\ origin' = "default"
    /\ args' = None
    /\ prevOrder' = 0
    /\ orig' = None

\* WordGenerator(trainData, order, prior)
Construct(trainData, order, dPrior) ==
    /\ IdleCall
    /\ LET s == ConstructState(trainData, order, dPrior)
       IN /\ m_alphabet' = s.alphabet
          /\ m_models' = s.models
    /\ m_order' = order
    /\ m_dPrior' = dPrior
    /\ origin' = "constructed"
    /\ args' = [corpus |-> trainData, order |-> order, prior |-> dPrior]
    /\ prevOrder' = 0
    /\ orig' = None

\* WordGenerator::train -> Model::train
Train(trainData, order, dPrior) ==
    /\ IdleCall
    /\ LET s == TrainState(m_models, trainData, order, dPrior)
       IN /\ m_alphabet' = s.alphabet
          /\ m_models' = s.models
    /\ m_order' = order
    /\ m_dPrior' = dPrior
    /\ origin' = "trained"
    /\ args' = [corpus |-> trainData, order |-> order, prior |-> dPrior]
    /\ prevOrder' = m_order
    /\ orig' = None

\* WordGenerator(exportData()): the generator built from the snapshot
Reconstruct ==
    /\ IdleCall
    /\ LET snapshot == exportData
       IN /\ m_order' = SnapshotOrder(snapshot)
          /\ m_alphabet' = snapshot.alphabet
          /\ m_models' = snapshot.models
    /\ m_dPrior' = Unset         \* Model(ExportedModel) does not initialize it
    /\ origin' = "snapshot"
    /\ orig' = [order |-> m_order, alphabet |-> m_alphabet, models |-> m_models,
                origin |-> origin]
    /\ UNCHANGED <<args, prevOrder>>

NextTrain ==
    \/ DefaultConstruct
    \/ \E c \in Corpora, o \in Orders, p \in Priors : Construct(c, o, p)
    \/ \E c \in Corpora, o \in Orders, p \in Priors : Train(c, o, p)
    \/ Reconstruct

SpecTrain == Init /\ [][NextTrain]_vars

----------------------------------------------------------------------------
(* Prediction and word generation *)

Draws == 0..RandMax

\* strings over '#', 'a', 'b' of length 0..MaxCtxLen
Contexts == UNION {[1..l -> {Hash, 97, 98}] : l \in 0..MaxCtxLen}

\* (minLength, maxLength) of the newWord / newWords calls
LenArgs == {<<3, 8>>, <<1, 2>>, <<1, 10>>, <<2, 1>>, <<0, -1>>, <<-1, 2>>}

\* an int converted to size_t: wrap * 2^64 + low
ToSizeT(x) == IF x < 0 THEN [wrap |-> 1, low |-> x] ELSE [wrap |-> 0, low |-> x]

\* a < b on size_t values
SizeLess(a, b) == a.wrap < b.wrap \/ (a.wrap = b.wrap /\ a.low < b.low)

\* newWord: word.size() < minLength || word.size() > maxLength
OutOfBounds(size, minLength, maxLength) ==
    \/ SizeLess(ToSizeT(size), ToSizeT(minLength))
    \/ SizeLess(ToSizeT(maxLength), ToSizeT(size))

\* newWord: word.erase(std::remove(word.begin(), word.end(), '#'), word.end())
Strip(w) == SelectSeq(w, LAMBDA c : c # Hash)

\* Model::generate called from outside
Generate(context, r) ==
    /\ pc = "idle"
    /\ call' = [op |-> "generate", context |-> context, r |-> r]
    /\ ret' = generate(m_order, m_alphabet, m_models, context, r)
    /\ predicted' = TRUE
    /\ word' = <<>>
    /\ i' = 0
    /\ words' = <<>>
    /\ UNCHANGED <<pc, modelVars, histVars>>

\* WordGenerator::newWord up to the first attempt
NewWordCall(minLength, maxLength) ==
    /\ pc = "idle"
    /\ call' = [op |-> "newWord", minLength |-> minLength, maxLength |-> maxLength]
    /\ predicted' = FALSE
    /\ i' = 0
    /\ words' = <<>>
    /\ IF ~isTrained(m_models)
       THEN /\ ret' = Value(<<>>)
            /\ word' = <<>>
            /\ pc' = "idle"
       ELSE /\ ret' = None
            /\ word' = padding(m_order)
            /\ pc' = "generate"
    /\ UNCHANGED <<modelVars, histVars>>

\* WordGenerator::newWords up to its first newWord call
NewWordsCall(n, minLength, maxLength, repeat) ==
    /\ pc = "idle"
    /\ call' = [op |-> "newWords", n |-> n, minLength |-> minLength,
                maxLength |-> maxLength, repeat |-> repeat]
    /\ predicted' = FALSE
    /\ i' = 0
    /\ words' = <<>>
    /\ IF ~isTrained(m_models) \/ ~(0 < n)
       THEN /\ ret' = Value(<<>>)
            /\ word' = <<>>
            /\ pc' = "idle"
       ELSE /\ ret' = None
            /\ word' = padding(m_order)
            /\ pc' = "generate"
    /\ UNCHANGED <<modelVars, histVars>>

\* newWord: one call of generate on the buffer and what follows it: the
\* letter is appended, or ('#') the attempt ends and the do-while loop
\* goes round or newWord returns the stripped word, to its caller or to
\* newWords. (The buffer never is shorter than m_order, so generate does
\* not throw here.)
Attempt(r) ==
    /\ pc = "generate"
    /\ predicted' = TRUE
    /\ LET res == generate(m_order, m_alphabet, m_models, word, r)
           stripped == Strip(word)
       IN /\ res.kind = "value"
          /\ IF res.v # Hash
             THEN /\ Len(stripped) < MaxGenLen
                  /\ word' = Append(word, res.v)
                  /\ UNCHANGED <<pc, i, ret>>
             ELSE /\ i' = i + 1
                  /\ IF i + 1 < MaxAttempts
                        /\ OutOfBounds(Len(stripped), call.minLength, call.maxLength)
                     THEN /\ word' = padding(m_order)
                          /\ UNCHANGED <<pc, ret>>
                     ELSE /\ word' = stripped
                          /\ ret' = Value(stripped)
                          /\ pc' = IF call.op = "newWords" THEN "collect"
                                   ELSE "idle"
    /\ UNCHANGED <<call, words, modelVars, histVars>>

\* newWords that keeps every word, repeated or not
PushBack_always(ws, w, repeat) == Append(ws, w)

\* newWords: if (repeat || find(words, word) == words.end()) push_back(word)
PushBack(ws, w, repeat) ==
    IF repeat \/ w \notin Range(ws) THEN Append(ws, w) ELSE ws

\* newWords: the word newWord returned is pushed or dropped, then the
\* while condition decides between another newWord call and the return
Collect ==
    /\ pc = "collect"
    /\ LET pushed == PushBack(words, word, call.repeat)
       IN /\ words' = pushed
          /\ IF Len(pushed) < call.n
             THEN /\ pc' = "generate"
                  /\ i' = 0
                  /\ word' = padding(m_order)
                  /\ ret' = None
             ELSE /\ pc' = "idle"
                  /\ i' = 0
                  /\ word' = <<>>
                  /\ ret' = Value(pushed)
    /\ UNCHANGED <<call, predicted, modelVars, histVars>>

NextGen ==
    \/ DefaultConstruct
    \/ \E g \in GenInputs : Construct(g.corpus, g.order, g.prior)
    \/ Reconstruct
    \/ \E c \in Contexts, r \in Draws : Generate(c, r)
    \/ \E l \in LenArgs : NewWordCall(l[1], l[2])
    \/ \E n \in 0..MaxN, l \in WordsLenArgs, b \in BOOLEAN :
            NewWordsCall(n, l[1], l[2], b)
    \/ \E r \in Draws : Attempt(r)
    \/ Collect

SpecGen == Init /\ [][NextGen]_vars

----------------------------------------------------------------------------
(* Weighted selection on its own *)

\* weight vectors of 0..MaxVecLen weights 0..MaxWeight
Vectors == UNION {[1..l -> 0..MaxWeight] : l \in 0..MaxVecLen}

\* Model::selectIndex(chain) with rand() = r
SelectIndex(chain, r) ==
    /\ pc = "idle"
    /\ call' = [op |-> "selectIndex", chain |-> chain, r |-> r]
    /\ ret' = Value(selectIndex(chain, r))
    /\ UNCHANGED <<pc, word, i, words, predicted, modelVars, histVars>>

NextSelect == \E chain \in Vectors, r \in Draws : SelectIndex(chain, r)

SpecSelect == Init /\ [][NextSelect]_vars

----------------------------------------------------------------------------
(* Properties *)

\* the trailing k characters of a string
Trailing(context, k) == SubSeq(context, Len(context) - k + 1, Len(context))

\* the orders whose own chain holds the trailing characters of the context
MatchingOrders(context) ==
    {k \in 1..m_order :
        Len(context) >= k /\ Trailing(context, k) \in DOMAIN m_models[k]}

Largest(S) == CHOOSE x \in S : \A y \in S : y <= x

\* a generator built from a corpus, by the constructor or by train()
FromCorpus == origin \in {"constructed", "trained"}

\* C1: on a trained model of order N, generate on a context of at least N
\* characters looks the trailing i characters up in the chain of order i,
\* for i = N down to 1, samples from the first chain that has the key and
\* returns '#' only when no order has it.
C1_BackoffLookup ==
    (pc = "idle" /\ call.op = "generate" /\ FromCorpus
       /\ Len(call.context) >= m_order)
    => LET hits == MatchingOrders(call.context)
       IN IF hits = {} THEN ret = Value(Hash)
          ELSE LET k == Largest(hits)
                   chain == m_models[k][Trailing(call.context, k)]
               IN ret = Value(m_alphabet[selectIndex(chain, call.r) + 1])

\* C2: a model built from the snapshot of a model trained with order N has
\* the original's alphabet and chains, order() = number of chains = N, and
\* predicts as the original does for every context and every draw.
C2_ExportRoundTrip ==
    (origin = "snapshot" /\ orig.origin \in {"constructed", "trained"})
    => /\ m_alphabet = orig.alphabet
       /\ m_models = orig.models
       /\ m_order = Len(m_models)
       /\ m_order = orig.order
       /\ \A c \in Contexts, r \in Draws :
            generate(m_order, m_alphabet, m_models, c, r)
            = generate(orig.order, orig.alphabet, orig.models, c, r)

\* C3: on a trained model generate returns normally for every context, the
\* empty one and those shorter than the order included, with a character
\* of the alphabet or '#'.
C3_TotalOnShortContexts ==
    (pc = "idle" /\ call.op = "generate" /\ FromCorpus)
    => /\ ret.kind = "value"
       /\ ret.v \in Range(m_alphabet) \cup {Hash}

\* C4: newWord on a trained generator makes 1..100 attempts; an attempt
\* ends the call exactly when its stripped length L has
\* minLength <= L <= maxLength or it is the 100th; the call returns that
\* attempt's candidate, which holds no '#'; with minLength > maxLength
\* exactly 100 attempts are made.
C4_AttemptLoop ==
    [][ (pc = "generate" /\ call.op = "newWord" /\ i' = i + 1)
        => LET cand == Strip(word)
               fits == call.minLength <= Len(cand) /\ Len(cand) <= call.maxLength
           IN /\ i' \in 1..MaxAttempts
              /\ (pc' = "idle") <=> (fits \/ i' = MaxAttempts)
              /\ (pc' = "idle")
                 => /\ ret' = Value(cand)
                    /\ Hash \notin Range(cand)
                    /\ call.minLength > call.maxLength => i' = MaxAttempts
      ]_vars

\* C5: newWords with allowRepeats = true on a generator trained from
\* non-empty words (or rebuilt from its snapshot) returns exactly n words,
\* none of them empty. Stated for the generators trained with prior 0,
\* where no count puts weight on '#' after the start padding.
C5_RepeatsNonEmpty ==
    (pc = "idle" /\ call.op = "newWords" /\ call.repeat /\ isTrained(m_models)
       /\ args.prior = 0)
    => /\ ret.kind = "value"
       /\ Len(ret.v) = call.n
       /\ \A j \in DOMAIN ret.v : ret.v[j] # <<>>

PairwiseDistinct(ws) ==
    \A j \in DOMAIN ws, l \in DOMAIN ws : j # l => ws[j] # ws[l]

\* C6: in newWords with allowRepeats = false the collected words are
\* pairwise distinct at every step and never get fewer; a generated word
\* is appended at the end if it is new and dropped if it is already there;
\* the call returns exactly n pairwise distinct words.
C6_NoRepeats ==
    /\ [](  (call.op = "newWords" /\ ~call.repeat)
            => /\ PairwiseDistinct(words)
               /\ (pc = "idle" /\ isTrained(m_models))
                  => (ret = Value(words) /\ Len(words) = call.n) )
    /\ [][ (call.op = "newWords" /\ ~call.repeat /\ pc # "idle")
           => /\ Len(words') >= Len(words)
              /\ IF pc = "collect"
                 THEN words' = IF word \in Range(words) THEN words
                                ELSE Append(words, word)
                 ELSE words' = words
       ]_vars

\* a word that is already collected comes back from newWord
C6_Witness ==
    /\ pc = "collect"
    /\ ~call.repeat
    /\ word \in Range(words)
    /\ Len(words) = 1
    /\ call.n = 2

\* C7: on a default-constructed generator isTrained() is false and order()
\* is 0, generate returns '#' for every context, newWord returns the empty
\* string without predicting, newWords returns the empty sequence, and no
\* call changes the model.
C7_UntrainedFallbacks ==
    /\ [](  origin = "default"
            => /\ ~isTrained(m_models)
               /\ m_order = 0
               /\ pc = "idle"
               /\ call.op = "generate" => ret = Value(Hash)
               /\ call.op = "newWord" => (ret = Value(<<>>) /\ ~predicted)
               /\ call.op = "newWords" => (ret = Value(<<>>) /\ ~predicted) )
    /\ [][ (origin = "default" /\ call'.op \in {"generate", "newWord", "newWords"})
           => UNCHANGED <<m_order, m_dPrior, m_alphabet, m_models>> ]_vars

\* newWord(1, 10) has returned on a generator that never was trained
C7_Witness ==
    /\ origin = "default"
    /\ call.op = "newWord"
    /\ call.minLength = 1
    /\ call.maxLength = 10
    /\ ret = Value(<<>>)

\* C8: after train(corpus, order, prior), whatever the model held before,
\* the alphabet, the number of chains, their keys and their weights are
\* those of a fresh model constructed from the same arguments.
C8_RetrainReplaces ==
    origin = "trained"
    => LET fresh == ConstructState(args.corpus, args.order, args.prior)
       IN /\ m_alphabet = fresh.alphabet
          /\ m_models = fresh.models
          /\ Len(m_models) = args.order
          /\ m_order = args.order
          /\ m_dPrior = args.prior

\* a model trained with a larger order before has been trained again
C8_Witness ==
    /\ origin = "trained"
    /\ prevOrder > m_order
    /\ m_order >= 1

\* a training word between k boundary markers and one
Padded(w, k) == [j \in 1..k |-> Hash] \o w \o <<Hash>>

\* the places <<word, position>> of the corpus where a window of k characters
\* is followed by a character
Places(corpus, k) ==
    UNION {{<<x, q>> : q \in 1..(Len(Padded(corpus[x], k)) - k)} : x \in DOMAIN corpus}

WindowAt(corpus, k, pl) == SubSeq(Padded(corpus[pl[1]], k), pl[2], pl[2] + k - 1)

FollowerAt(corpus, k, pl) == Padded(corpus[pl[1]], k)[pl[2] + k]

Follows(corpus, k, key, c) ==
    Cardinality({pl \in Places(corpus, k) :
                    WindowAt(corpus, k, pl) = key /\ FollowerAt(corpus, k, pl) = c})

\* C9: after training, the keys of the chain of order k are exactly the
\* windows of k characters of the padded training words that a character
\* follows, and the weight of alphabet[j] under a key is prior + the number
\* of times alphabet[j] follows the key in the corpus; for ["ab","ac","ad"],
\* order 1, prior 0 the alphabet is #abcd and "a" is positive on b, c, d only.
C9_ChainContents ==
    FromCorpus
    => /\ Len(m_models) = args.order
       /\ \A k \in 1..args.order :
            /\ DOMAIN m_models[k]
               = {WindowAt(args.corpus, k, pl) : pl \in Places(args.corpus, k)}
            /\ \A key \in DOMAIN m_models[k] :
                 /\ Len(m_models[k][key]) = Len(m_alphabet)
                 /\ \A j \in DOMAIN m_alphabet :
                      /\ m_models[k][key][j]
                         = args.prior + Follows(args.corpus, k, key, m_alphabet[j])
                      /\ m_models[k][key][j] >= args.prior
       /\ (args.corpus = ScenarioCorpus /\ args.order = 1 /\ args.prior = 0)
          => /\ m_alphabet = <<Hash, 97, 98, 99, 100>>
             /\ \A j \in 1..5 : (m_models[1][<<97>>][j] > 0) <=> (j \in {3, 4, 5})

\* the scenario: ["ab", "ac", "ad"] trained with order 1 and prior 0
C9_Witness ==
    /\ FromCorpus
    /\ args.corpus = ScenarioCorpus
    /\ args.order = 1
    /\ args.prior = 0

\* C10: with total > 0 the scaled draw lies in [0, total) and selectIndex
\* returns the smallest index whose cumulative sum exceeds the draw, never
\* one of weight 0; with total = 0 it returns 0.
C10_WeightedSelection ==
    call.op = "selectIndex"
    => LET chain == call.chain
           total == Sum(chain, Len(chain))
           above == {j \in DOMAIN chain : call.r * total < Sum(chain, j) * RandMax}
       IN IF total > 0
          THEN /\ call.r * total < total * RandMax
               /\ above # {}
               /\ \A j \in above : ret.v + 1 <= j
               /\ ret.v + 1 \in above
               /\ chain[ret.v + 1] # 0
          ELSE ret.v = 0

====
